---- MODULE Spec2Model ----
(***************************************************************************)
(* Model of lib/memfault/memfault_platform_port.c: the glue layer between  *)
(* the Memfault SDK and the platform (logging sink, reboot reason, boot    *)
(* sequence, device info, time source, coredump address sanitizer).        *)
(*                                                                         *)
(* The target is a 32-bit MCU: uint32_t and size_t are 32 bits wide.  A    *)
(* 32-bit value is kept as two 16-bit halves [hi, lo] so that the real     *)
(* width (and its wrap-around) is modelled.                                *)
(***************************************************************************)
EXTENDS Integers, Sequences, FiniteSets, TLC

VARIABLES
    sys,                \* "running" | "spinning" (inside memfault_platform_reboot's while(1))
    pc,                 \* 0: not inside memfault_platform_boot; k>0: next boot step
    calls,              \* SDK/platform calls made by the current (or last) boot run, in order
    failed,             \* SDK sub-steps of that run that reported a failure
    boot_calls,         \* invocations of memfault_platform_boot since the last reset
    handed,             \* per buffer: times it was handed to an SDK boot routine since reset
    out,                \* the output stream: the lines printf has written
    s_min_log_level,    \* static eMemfaultPlatformLogLevel s_min_log_level
    s_log_prefix,       \* static const char *s_log_prefix
    metrics_enabled,    \* whether MEMFAULT_COMPONENT_metrics_ is defined in this build
    s_mcu_mem_regions,  \* the static region table of the sanitizer
    s_reboot_tracking,  \* the .noinit reboot tracking region (what the SDK stored in it)
    reset_info,         \* local of memfault_platform_reboot_tracking_boot
    last_op             \* the last adapter operation: [name, args, ret]

vars == <<sys, pc, calls, failed, boot_calls, handed, out, s_min_log_level,
          s_log_prefix, metrics_enabled, s_mcu_mem_regions, s_reboot_tracking,
          reset_info, last_op>>

----------------------------------------------------------------------------
(* Bounds of the model *)

MaxOut == 2
MaxBoots == 2
MaxRegions == 2
MaxMsgLen == 200
MaxLevel == 5

----------------------------------------------------------------------------
(* 32-bit unsigned arithmetic (uint32_t, size_t) on 16-bit halves *)

HALF == 2^16

U32(h, l) == [hi |-> h, lo |-> l]

IsU32(x) == x.hi \in 0..(HALF - 1) /\ x.lo \in 0..(HALF - 1)

\* x + y modulo 2^32
Add32(x, y) ==
    LET lo == x.lo + y.lo
        hi == x.hi + y.hi + (lo \div HALF)
    IN  U32(hi % HALF, lo % HALF)

\* mutant of Sub32: the operands taken the other way round
Sub32_swapped(x, y) ==
    LET borrow == IF y.lo < x.lo THEN 1 ELSE 0
        lo == y.lo + HALF - x.lo
        hi == y.hi + HALF - x.hi - borrow
    IN  U32(hi % HALF, lo % HALF)

\* x - y modulo 2^32
Sub32(x, y) ==
    LET borrow == IF x.lo < y.lo THEN 1 ELSE 0
        lo == x.lo + HALF - y.lo
        hi == x.hi + HALF - y.hi - borrow
    IN  U32(hi % HALF, lo % HALF)

Lt32(x, y) == x.hi < y.hi \/ (x.hi = y.hi /\ x.lo < y.lo)

Ge32(x, y) == ~Lt32(x, y)

\* mutant of MEMFAULT_MIN: the comparison inverted (a maximum)
MEMFAULT_MIN_inverted(a, b) == IF Lt32(b, a) THEN a ELSE b

\* #define MEMFAULT_MIN(a, b) (((a) < (b)) ? (a) : (b))
MEMFAULT_MIN(a, b) == IF Lt32(a, b) THEN a ELSE b

ZERO32 == U32(0, 0)

----------------------------------------------------------------------------
(* Logging sink *)

MEMFAULT_DEBUG_LOG_BUFFER_SIZE_BYTES == 128

kMemfaultPlatformLogLevel_Debug == 0
kMemfaultPlatformLogLevel_Info == 1
kMemfaultPlatformLogLevel_Warning == 2
kMemfaultPlatformLogLevel_Error == 3

\* the values an eMemfaultPlatformLogLevel argument can carry
LevelValues == 0..MaxLevel

\* the SDK's default for the RAM logger threshold (the port's config header
\* does not override it)
MEMFAULT_RAM_LOGGER_DEFAULT_MIN_LOG_LEVEL == kMemfaultPlatformLogLevel_Info

\* the levels a build can configure as MEMFAULT_RAM_LOGGER_DEFAULT_MIN_LOG_LEVEL
ConfigLevels == kMemfaultPlatformLogLevel_Debug..kMemfaultPlatformLogLevel_Error

prv_level_to_str(level) ==
    CASE level = kMemfaultPlatformLogLevel_Debug   -> "DEBG"
      [] level = kMemfaultPlatformLogLevel_Info    -> "INFO"
      [] level = kMemfaultPlatformLogLevel_Warning -> "WARN"
      [] level = kMemfaultPlatformLogLevel_Error   -> "ERRO"
      [] OTHER                                     -> "????"

\* mutant of vsnprintf: no room kept for the terminator
vsnprintf_offbyone(size, text) ==
    IF Len(text) <= size THEN text ELSE SubSeq(text, 1, size)

\* vsnprintf(buf, size, fmt, args): text is what fmt and args render to; the
\* buffer receives at most size-1 characters of it (and the terminator).
vsnprintf(size, text) ==
    IF Len(text) < size THEN text ELSE SubSeq(text, 1, size - 1)

\* mutant of memfault_platform_log: the level is not compared with the threshold
memfault_platform_log_unfiltered(level, text) ==
    <<s_log_prefix \o ":[" \o prv_level_to_str(level) \o "] "
      \o SubSeq(text, 1, IF Len(text) < 127 THEN Len(text) ELSE 127) \o "\n">>

\* the lines memfault_platform_log writes to stdout
memfault_platform_log(level, text) ==
    IF level >= s_min_log_level
    THEN LET level_name == prv_level_to_str(level)
             log_buf == vsnprintf(MEMFAULT_DEBUG_LOG_BUFFER_SIZE_BYTES, text)
         IN  <<s_log_prefix \o ":[" \o level_name \o "] " \o log_buf \o "\n">>
    ELSE <<>>

\* the lines memfault_platform_log_raw writes to stdout
memfault_platform_log_raw(text) ==
    LET log_buf == vsnprintf(MEMFAULT_DEBUG_LOG_BUFFER_SIZE_BYTES, text)
    IN  <<log_buf \o "\n">>

----------------------------------------------------------------------------
(* Rendered messages the callers pass: texts of chosen lengths *)

RECURSIVE Tens(_)
Tens(k) == IF k = 0 THEN "" ELSE Tens(k - 1) \o "1234567890"

\* a text of n characters
Text(n) == SubSeq(Tens((n \div 10) + 1), 1, n)

MsgLens == {0, 1,
            MEMFAULT_DEBUG_LOG_BUFFER_SIZE_BYTES - 1,
            MEMFAULT_DEBUG_LOG_BUFFER_SIZE_BYTES,
            MaxMsgLen}

Messages == {Text(n) : n \in MsgLens}

\* the texts the whole-program specification logs: one that fits, one that does not
FewMessages == {Text(1), Text(MaxMsgLen)}

----------------------------------------------------------------------------
(* Memory range sanitizer *)

Region(s, l) == [start_addr |-> s, length |-> l]

\* static const ... s_mcu_mem_regions[] = { {.start_addr = 0x00000000, .length = 0xFFFFFFFF} }
ShippedTable == <<Region(U32(0, 0), U32(\hFFFF, \hFFFF))>>

\* the for loop of memfault_platform_sanitize_address_range, from index i on
RECURSIVE sanitize_from(_, _, _, _)
sanitize_from(table, i, start_addr, desired_size) ==
    IF i > Len(table)
    THEN ZERO32
    ELSE LET lower_addr == table[i].start_addr
             upper_addr == Add32(lower_addr, table[i].length)
         IN  IF Ge32(start_addr, lower_addr) /\ Lt32(start_addr, upper_addr)
             THEN MEMFAULT_MIN(desired_size, Sub32(upper_addr, start_addr))
             ELSE sanitize_from(table, i + 1, start_addr, desired_size)

memfault_platform_sanitize_address_range(table, start_addr, desired_size) ==
    sanitize_from(table, 1, start_addr, desired_size)

\* addresses and sizes the coredump engine asks about
AddrSamples ==
    {U32(0, 0), U32(0, \h1000), U32(0, \h1080), U32(0, \h10FF), U32(0, \h1100),
     U32(0, \h2000), U32(\h7FFF, \hFFFF), U32(\h8000, 0), U32(\hFFFF, 0),
     U32(\hFFFF, \hFFFE), U32(\hFFFF, \hFFFF)}

SizeSamples ==
    {U32(0, 0), U32(0, \h10), U32(0, \h80), U32(0, \h200), U32(\hFFFF, \hFFFF)}

\* the requests the whole-program specification makes
FewAddrs == {U32(0, \h1080), U32(\hFFFF, \hFFFF)}

FewSizes == {U32(0, \h200)}

\* region tables a port may be configured with (the FIXME of the table)
\* two overlapping banks, banks that end at or past the top of the address
\* space, the whole address space, an empty bank
Regions ==
    {Region(U32(0, \h1000), U32(0, \h100)),
     Region(U32(0, \h1080), U32(0, \h100)),
     Region(U32(\hFFFF, 0), U32(1, 0)),
     Region(U32(\hFFFF, 0), U32(\hFFFF, \hFFFF)),
     Region(U32(0, \h1000), U32(\hFFFF, \hFFFF)),
     Region(U32(0, 0), U32(\hFFFF, \hFFFF)),
     Region(U32(0, \h2000), U32(0, 0))}

Tables == UNION {[1..k -> Regions] : k \in 1..MaxRegions}

----------------------------------------------------------------------------
(* Records the adapter fills in *)

kMfltRebootReason_Unknown == "kMfltRebootReason_Unknown"
kMfltRebootReason_SoftwareReset == "kMfltRebootReason_SoftwareReset"

\* sResetBootupInfo reset_info = {0};
ZeroResetInfo ==
    [reset_reason_reg |-> ZERO32, reset_reason |-> kMfltRebootReason_Unknown]

\* *reset_info = (sResetBootupInfo){ .reset_reason_reg = 0xDEADBEEF, ... }
memfault_reboot_reason_get ==
    [reset_reason_reg |-> U32(\hDEAD, \hBEEF),
     reset_reason |-> kMfltRebootReason_SoftwareReset]

memfault_platform_get_device_info ==
    [device_serial |-> "DEMOSERIAL",
     software_type |-> "app-fw",
     software_version |-> "1.0.0",
     hardware_version |-> "dvt1"]

\* the record memfault_platform_time_get_current stores through its argument
time_get_current_record ==
    [type |-> "kMemfaultCurrentTimeType_UnixEpochTimeSec",
     unix_timestamp_secs |-> 0]

\* mutant of time_get_current_return: the placeholder time reported as valid
time_get_current_return_valid == TRUE

\* the value memfault_platform_time_get_current returns
time_get_current_return == FALSE

\* what a caller's sMemfaultCurrentTime may hold before the call
TimeRecords ==
    {[type |-> "kMemfaultCurrentTimeType_Unknown", unix_timestamp_secs |-> 0],
     [type |-> "kMemfaultCurrentTimeType_UnixEpochTimeSec", unix_timestamp_secs |-> 1700000000]}

----------------------------------------------------------------------------
(* Boot sequence *)

Buffers == {"s_reboot_tracking", "s_event_storage", "s_log_buf_storage"}

\* mutant of BootSteps: event storage is booted before the reboot reason is captured
BootSteps_storage_first ==
    <<"memfault_freertos_port_boot",
      "memfault_events_storage_boot",
      "memfault_trace_event_boot",
      "memfault_reboot_reason_get",
      "memfault_reboot_tracking_boot",
      "memfault_reboot_tracking_collect_reset_info">>
    \o (IF metrics_enabled
        THEN <<"memfault_reboot_tracking_get_crash_count", "memfault_metrics_boot">>
        ELSE <<>>)
    \o <<"memfault_log_boot",
         "memfault_build_info_dump",
         "memfault_device_info_dump",
         "MEMFAULT_LOG_INFO">>

\* the calls memfault_platform_boot makes, in program order
BootSteps ==
    <<"memfault_freertos_port_boot",
      "memfault_reboot_reason_get",
      "memfault_reboot_tracking_boot",
      "memfault_events_storage_boot",
      "memfault_trace_event_boot",
      "memfault_reboot_tracking_collect_reset_info">>
    \o (IF metrics_enabled
        THEN <<"memfault_reboot_tracking_get_crash_count", "memfault_metrics_boot">>
        ELSE <<>>)
    \o <<"memfault_log_boot",
         "memfault_build_info_dump",
         "memfault_device_info_dump",
         "MEMFAULT_LOG_INFO">>

\* the buffer a boot step hands to the SDK, if any
StepBuffer(step) ==
    CASE step = "memfault_reboot_tracking_boot" -> {"s_reboot_tracking"}
      [] step = "memfault_events_storage_boot"  -> {"s_event_storage"}
      [] step = "memfault_log_boot"             -> {"s_log_buf_storage"}
      [] OTHER                                  -> {}

\* SDK sub-initialisations that report a result (which the code discards)
Fallible ==
    {"memfault_events_storage_boot", "memfault_metrics_boot", "memfault_log_boot"}

\* mutant of BootRuns: a one-shot latch, only the first invocation runs
BootRuns_once == boot_calls = 0

\* memfault_platform_boot has no guard: every invocation runs the sequence
BootRuns == TRUE

\* mutant of BootReturn: a failure of a sub-step is returned
BootReturn_propagate == IF failed = {} THEN 0 ELSE 1

\* return 0;
BootReturn == 0

\* MEMFAULT_LOG_INFO("Memfault Initialized!") goes through memfault_platform_log
BootLogLine ==
    memfault_platform_log(kMemfaultPlatformLogLevel_Info, "Memfault Initialized!")

----------------------------------------------------------------------------
(* State after construction *)

Op(name, args, ret) == [name |-> name, args |-> args, ret |-> ret]

InitCommon ==
    /\ sys = "running"
    /\ pc = 0
    /\ calls = <<>>
    /\ failed = {}
    /\ boot_calls = 0
    /\ handed = [b \in Buffers |-> 0]
    /\ out = <<>>
    /\ s_log_prefix = "MFLT"
    /\ s_reboot_tracking = "noinit"
    /\ reset_info = ZeroResetInfo
    /\ last_op = Op("start", <<>>, <<>>)

\* the program as built: the SDK's default threshold, the shipped region table
Init ==
    /\ InitCommon
    /\ s_min_log_level = MEMFAULT_RAM_LOGGER_DEFAULT_MIN_LOG_LEVEL
    /\ metrics_enabled \in BOOLEAN
    /\ s_mcu_mem_regions = ShippedTable

\* the adapter is idle: running, and not inside memfault_platform_boot
Idle == sys = "running" /\ pc = 0

----------------------------------------------------------------------------
(* Operations *)

Call_memfault_platform_log(levels, texts) ==
    /\ Idle
    /\ \E level \in levels, text \in texts :
          LET lines == memfault_platform_log(level, text)
          IN  /\ Len(out) + Len(lines) <= MaxOut
              /\ out' = out \o lines
              /\ last_op' = Op("memfault_platform_log", <<level, text>>, <<>>)
    /\ UNCHANGED <<sys, pc, calls, failed, boot_calls, handed, s_min_log_level,
                   s_log_prefix, metrics_enabled, s_mcu_mem_regions,
                   s_reboot_tracking, reset_info>>

Call_memfault_platform_log_raw(texts) ==
    /\ Idle
    /\ \E text \in texts :
          LET lines == memfault_platform_log_raw(text)
          IN  /\ Len(out) + Len(lines) <= MaxOut
              /\ out' = out \o lines
              /\ last_op' = Op("memfault_platform_log_raw", <<text>>, <<>>)
    /\ UNCHANGED <<sys, pc, calls, failed, boot_calls, handed, s_min_log_level,
                   s_log_prefix, metrics_enabled, s_mcu_mem_regions,
                   s_reboot_tracking, reset_info>>

Call_memfault_reboot_reason_get ==
    /\ Idle
    /\ last_op' = Op("memfault_reboot_reason_get", <<>>, memfault_reboot_reason_get)
    /\ UNCHANGED <<sys, pc, calls, failed, boot_calls, handed, out, s_min_log_level,
                   s_log_prefix, metrics_enabled, s_mcu_mem_regions,
                   s_reboot_tracking, reset_info>>

Call_memfault_metrics_heartbeat_collect_data ==
    /\ Idle
    /\ last_op' = Op("memfault_metrics_heartbeat_collect_data", <<>>,
                     <<"memfault_metrics_heartbeat_debug_print">>)
    /\ UNCHANGED <<sys, pc, calls, failed, boot_calls, handed, out, s_min_log_level,
                   s_log_prefix, metrics_enabled, s_mcu_mem_regions,
                   s_reboot_tracking, reset_info>>

Call_memfault_platform_get_device_info ==
    /\ Idle
    /\ last_op' = Op("memfault_platform_get_device_info", <<>>,
                     memfault_platform_get_device_info)
    /\ UNCHANGED <<sys, pc, calls, failed, boot_calls, handed, out, s_min_log_level,
                   s_log_prefix, metrics_enabled, s_mcu_mem_regions,
                   s_reboot_tracking, reset_info>>

\* args: the caller's record before the call; ret: <<record after, returned value>>
Call_memfault_platform_time_get_current ==
    /\ Idle
    /\ \E time \in TimeRecords :
          last_op' = Op("memfault_platform_time_get_current", <<time>>,
                        <<time_get_current_record, time_get_current_return>>)
    /\ UNCHANGED <<sys, pc, calls, failed, boot_calls, handed, out, s_min_log_level,
                   s_log_prefix, metrics_enabled, s_mcu_mem_regions,
                   s_reboot_tracking, reset_info>>

Call_memfault_platform_sanitize_address_range(addrs, sizes) ==
    /\ Idle
    /\ \E start_addr \in addrs, desired_size \in sizes :
          last_op' = Op("memfault_platform_sanitize_address_range",
                        <<start_addr, desired_size>>,
                        memfault_platform_sanitize_address_range(
                            s_mcu_mem_regions, start_addr, desired_size))
    /\ UNCHANGED <<sys, pc, calls, failed, boot_calls, handed, out, s_min_log_level,
                   s_log_prefix, metrics_enabled, s_mcu_mem_regions,
                   s_reboot_tracking, reset_info>>

\* while (1) { }: the reset itself is a FIXME, the CPU spins
Call_memfault_platform_reboot ==
    /\ sys = "running"
    /\ sys' = "spinning"
    /\ last_op' = Op("memfault_platform_reboot", <<>>, <<>>)
    /\ UNCHANGED <<pc, calls, failed, boot_calls, handed, out, s_min_log_level,
                   s_log_prefix, metrics_enabled, s_mcu_mem_regions,
                   s_reboot_tracking, reset_info>>

\* entry of memfault_platform_boot
Call_memfault_platform_boot ==
    /\ Idle
    /\ boot_calls < MaxBoots
    /\ Len(out) < MaxOut
    /\ boot_calls' = boot_calls + 1
    /\ IF BootRuns
       THEN /\ pc' = 1
            /\ calls' = <<>>
            /\ failed' = {}
            /\ reset_info' = ZeroResetInfo
            /\ last_op' = Op("memfault_platform_boot", <<>>, "entered")
       ELSE /\ last_op' = Op("memfault_platform_boot", <<>>, BootReturn)
            /\ UNCHANGED <<pc, calls, failed, reset_info>>
    /\ UNCHANGED <<sys, handed, out, s_min_log_level, s_log_prefix,
                   metrics_enabled, s_mcu_mem_regions, s_reboot_tracking>>

\* one call of memfault_platform_boot's body; the last one returns
BootStep ==
    /\ sys = "running"
    /\ pc \in 1..Len(BootSteps)
    /\ LET step == BootSteps[pc]
       IN  /\ calls' = Append(calls, step)
           /\ handed' = [b \in Buffers |->
                            IF b \in StepBuffer(step) THEN handed[b] + 1 ELSE handed[b]]
           /\ reset_info' = IF step = "memfault_reboot_reason_get"
                            THEN memfault_reboot_reason_get
                            ELSE reset_info
           /\ s_reboot_tracking' = IF step = "memfault_reboot_tracking_boot"
                                   THEN reset_info
                                   ELSE s_reboot_tracking
           /\ out' = IF step = "MEMFAULT_LOG_INFO" THEN out \o BootLogLine ELSE out
           /\ \E ok \in BOOLEAN :
                 /\ (step \notin Fallible) => ok
                 /\ failed' = IF ok THEN failed ELSE failed \cup {step}
           /\ IF pc = Len(BootSteps)
              THEN /\ pc' = 0
                   /\ last_op' = Op("memfault_platform_boot", <<>>, BootReturn)
              ELSE /\ pc' = pc + 1
                   /\ UNCHANGED last_op
    /\ UNCHANGED <<sys, boot_calls, s_min_log_level, s_log_prefix, metrics_enabled,
                   s_mcu_mem_regions>>

\* a reset of the MCU (watchdog, power button, debugger): .data/.bss are set up
\* again, the .noinit region keeps its content, the bytes already sent stay sent
SystemReset ==
    /\ sys' = "running"
    /\ pc' = 0
    /\ calls' = <<>>
    /\ failed' = {}
    /\ boot_calls' = 0
    /\ handed' = [b \in Buffers |-> 0]
    /\ reset_info' = ZeroResetInfo
    /\ last_op' = Op("reset", <<>>, <<>>)
    /\ UNCHANGED <<out, s_min_log_level, s_log_prefix, metrics_enabled,
                   s_mcu_mem_regions, s_reboot_tracking>>

Next ==
    \/ Call_memfault_platform_log(LevelValues, FewMessages)
    \/ Call_memfault_platform_log_raw(FewMessages)
    \/ Call_memfault_reboot_reason_get
    \/ Call_memfault_metrics_heartbeat_collect_data
    \/ Call_memfault_platform_get_device_info
    \/ Call_memfault_platform_time_get_current
    \/ Call_memfault_platform_sanitize_address_range(FewAddrs, FewSizes)
    \/ Call_memfault_platform_reboot
    \/ Call_memfault_platform_boot
    \/ BootStep
    \/ SystemReset

Spec == Init /\ [][Next]_vars

(* The sanitizer as a function of its arguments, with the shipped table *)

InitShipped ==
    /\ InitCommon
    /\ s_min_log_level \in ConfigLevels
    /\ metrics_enabled \in BOOLEAN
    /\ s_mcu_mem_regions = ShippedTable

NextSanitize == Call_memfault_platform_sanitize_address_range(AddrSamples, SizeSamples)

SpecShipped == InitShipped /\ [][NextSanitize]_vars

(* The sanitizer as a function of its table: every table of Tables *)

InitTables ==
    /\ InitCommon
    /\ s_min_log_level = MEMFAULT_RAM_LOGGER_DEFAULT_MIN_LOG_LEVEL
    /\ metrics_enabled = TRUE
    /\ s_mcu_mem_regions \in Tables

SpecTables == InitTables /\ [][NextSanitize]_vars

(* The logging sink under every threshold a build can configure *)

InitLog ==
    /\ InitCommon
    /\ s_min_log_level \in ConfigLevels
    /\ metrics_enabled = TRUE
    /\ s_mcu_mem_regions = ShippedTable

NextLog ==
    \/ Call_memfault_platform_log(LevelValues, Messages)
    \/ Call_memfault_platform_log_raw(Messages)

SpecLog == InitLog /\ [][NextLog]_vars

----------------------------------------------------------------------------
(* Exact (unbounded) arithmetic for stating the properties: a natural number *)
(* is [hi, lo] with lo < 2^16 and hi any natural, so a 32-bit value denotes  *)
(* itself and a sum of two of them is kept without wrapping.                 *)

ExAdd(x, y) ==
    LET lo == x.lo + y.lo
    IN  [hi |-> x.hi + y.hi + (lo \div HALF), lo |-> lo % HALF]

ExLt(x, y) == x.hi < y.hi \/ (x.hi = y.hi /\ x.lo < y.lo)

ExLe(x, y) == ~ExLt(y, x)

\* x - y, for y <= x
ExSub(x, y) ==
    IF x.lo >= y.lo
    THEN [hi |-> x.hi - y.hi, lo |-> x.lo - y.lo]
    ELSE [hi |-> x.hi - y.hi - 1, lo |-> x.lo + HALF - y.lo]

ExMin(x, y) == IF ExLt(y, x) THEN y ELSE x

SanitizeCalled == last_op.name = "memfault_platform_sanitize_address_range"

\* the interval [start, start+length) of region r contains address a
InRegion(r, a) ==
    ExLe(r.start_addr, a) /\ ExLt(a, ExAdd(r.start_addr, r.length))

\* region r's start+length exceeds the 32-bit address space
RegionWraps(r) == ExLe(U32(HALF, 0), ExAdd(r.start_addr, r.length))

\* index of the first region of the table containing a, 0 when there is none
FirstRegion(table, a) ==
    IF \E i \in 1..Len(table) : InRegion(table[i], a)
    THEN CHOOSE i \in 1..Len(table) :
            /\ InRegion(table[i], a)
            /\ \A j \in 1..(i - 1) : ~InRegion(table[j], a)
    ELSE 0

\* min(n, start+length-a) for the first region containing a, else 0
ClampedToFirstRegion(table, a, n) ==
    LET i == FirstRegion(table, a)
    IN  IF i = 0
        THEN ZERO32
        ELSE ExMin(n, ExSub(ExAdd(table[i].start_addr, table[i].length), a))

C1_FirstMatchClampNoWrap ==
    (SanitizeCalled /\ \A i \in 1..Len(s_mcu_mem_regions) :
                           ~RegionWraps(s_mcu_mem_regions[i])) =>
        last_op.ret = ClampedToFirstRegion(s_mcu_mem_regions,
                                           last_op.args[1], last_op.args[2])

\* C2: the returned r satisfies 0 <= r <= n, and when r > 0 the byte range
\* [a, a+r) lies inside one region of the table, also for regions whose
\* start+length wraps modulo 2^32.
C2_ResultSafe ==
    SanitizeCalled =>
        LET a == last_op.args[1]
            n == last_op.args[2]
            r == last_op.ret
        IN  /\ IsU32(r)
            /\ ExLe(r, n)
            /\ ExLt(ZERO32, r) =>
                  \E i \in 1..Len(s_mcu_mem_regions) :
                     LET reg == s_mcu_mem_regions[i]
                     IN  /\ ExLe(reg.start_addr, a)
                         /\ ExLe(ExAdd(a, r), ExAdd(reg.start_addr, reg.length))

\* a call whose address lies in a region that wraps (which the code skips) and
\* that a later region answers with a clamped, non-zero length
C2_Witness ==
    /\ SanitizeCalled
    /\ \E i \in 1..Len(s_mcu_mem_regions) :
          /\ RegionWraps(s_mcu_mem_regions[i])
          /\ InRegion(s_mcu_mem_regions[i], last_op.args[1])
    /\ ExLt(ZERO32, last_op.ret)
    /\ ExLt(last_op.ret, last_op.args[2])

TOP32 == U32(\hFFFF, \hFFFF)

\* C10: with the shipped table {0x00000000, 0xFFFFFFFF} the sanitizer returns
\* min(n, 0xFFFFFFFF - a) for a in 0..0xFFFFFFFE and 0 for a = 0xFFFFFFFF, so the
\* returned range [a, a+r) never includes the byte at address 0xFFFFFFFF.
C10_ShippedTable ==
    SanitizeCalled =>
        LET a == last_op.args[1]
            n == last_op.args[2]
            r == last_op.ret
        IN  /\ s_mcu_mem_regions = ShippedTable
            /\ (a # TOP32) => r = ExMin(n, ExSub(TOP32, a))
            /\ (a = TOP32) => r = ZERO32
            /\ ExLe(ExAdd(a, r), TOP32)

\* a request that reaches for the last byte and is cut one byte short of it
C10_Witness ==
    /\ SanitizeCalled
    /\ s_mcu_mem_regions = ShippedTable
    /\ last_op.args[1] = U32(\hFFFF, \hFFFE)
    /\ ExLt(U32(0, 1), last_op.args[2])
    /\ last_op.ret = U32(0, 1)

----------------------------------------------------------------------------
(* Logging sink properties *)

\* the step is a call memfault_platform_log(level, text)
LogCalled == last_op.name = "memfault_platform_log"

\* C6: a call memfault_platform_log(level, ...) with level below s_min_log_level
\* writes nothing to the output stream and leaves s_min_log_level, s_log_prefix
\* and the storage buffers unchanged.
C6_BelowThresholdNoEffect ==
    [][(LogCalled' /\ last_op'.args[1] < s_min_log_level) =>
          /\ out' = out
          /\ s_min_log_level' = s_min_log_level
          /\ s_log_prefix' = s_log_prefix
          /\ handed' = handed
          /\ s_reboot_tracking' = s_reboot_tracking]_vars

\* a non-empty message was logged below the threshold
C6_Witness ==
    /\ LogCalled
    /\ last_op.args[1] < s_min_log_level
    /\ Len(last_op.args[2]) > 0

\* the tag the documentation gives each level
LevelTag(level) ==
    IF level = 0 THEN "DEBG"
    ELSE IF level = 1 THEN "INFO"
    ELSE IF level = 2 THEN "WARN"
    ELSE IF level = 3 THEN "ERRO"
    ELSE "????"

\* the first 127 characters of a text
Cut127(text) == IF Len(text) <= 127 THEN text ELSE SubSeq(text, 1, 127)

\* C7: a call memfault_platform_log(level, ...) with level at or above
\* s_min_log_level writes exactly one line, "MFLT:[<TAG>] <msg>" and a newline,
\* <TAG> being DEBG, INFO, WARN, ERRO or ???? and <msg> the rendered message cut
\* to at most 127 characters.
C7_AtThresholdOneLine ==
    [][(LogCalled' /\ last_op'.args[1] >= s_min_log_level) =>
          out' = Append(out, "MFLT:[" \o LevelTag(last_op'.args[1]) \o "] "
                             \o Cut127(last_op'.args[2]) \o "\n")]_vars

\* a message longer than the buffer was logged at an unrecognised level and its
\* line holds the 12 characters of prefix, tag and punctuation, 127 of message
\* and the newline
C7_Witness ==
    /\ LogCalled
    /\ last_op.args[1] > kMemfaultPlatformLogLevel_Error
    /\ last_op.args[1] >= s_min_log_level
    /\ Len(last_op.args[2]) > MEMFAULT_DEBUG_LOG_BUFFER_SIZE_BYTES
    /\ out # <<>>
    /\ Len(out[Len(out)]) = 12 + 127 + 1

----------------------------------------------------------------------------
(* Boot sequencer properties *)

IsPrefix(p, q) == Len(p) <= Len(q) /\ SubSeq(q, 1, Len(p)) = p

\* memfault_platform_boot has returned (and nothing was called since)
BootReturned == last_op.name = "memfault_platform_boot" /\ pc = 0

\* the order of calls the documentation requires of one boot run
RequiredOrder ==
    <<"memfault_freertos_port_boot",
      "memfault_reboot_reason_get", "memfault_reboot_tracking_boot",
      "memfault_events_storage_boot", "memfault_trace_event_boot",
      "memfault_reboot_tracking_collect_reset_info">>
    \o (IF metrics_enabled
        THEN <<"memfault_reboot_tracking_get_crash_count", "memfault_metrics_boot">>
        ELSE <<>>)
    \o <<"memfault_log_boot", "memfault_build_info_dump",
         "memfault_device_info_dump", "MEMFAULT_LOG_INFO">>

\* C3: in every run of memfault_platform_boot the calls happen in the required
\* order (RTOS port boot, reboot reason capture, event storage and trace boot,
\* reset info collection, metrics boot only when enabled, log boot, the dumps
\* and the ready line), one after the other: what has been called so far is
\* always an initial part of that order, and all of it once boot has returned.
C3_BootOrder ==
    /\ IsPrefix(calls, RequiredOrder)
    /\ (pc > 0) => Len(calls) = pc - 1
    /\ BootReturned => calls = RequiredOrder

\* a boot run of a build with metrics has returned after its twelve calls
C3_Witness ==
    /\ BootReturned
    /\ metrics_enabled
    /\ Len(calls) = 12
    /\ s_reboot_tracking = memfault_reboot_reason_get

\* C4 (as claimed): memfault_platform_boot returns 0 only when every SDK
\* sub-initialisation step succeeded; a failing sub-step makes it return non-zero.
C4_ZeroOnlyOnSuccess ==
    (BootReturned /\ last_op.ret = 0) => failed = {}

\* C4 (amended): memfault_platform_boot returns 0 on every invocation, whether or
\* not a sub-initialisation step reported a failure, and has then made every
\* call of the sequence (a failing step does not stop the ones after it).
C4_AlwaysReturnsZero ==
    BootReturned => (last_op.ret = 0 /\ calls = RequiredOrder)

\* a boot run in which a sub-step failed has returned
C4_Witness ==
    /\ BootReturned
    /\ failed # {}
    /\ "memfault_events_storage_boot" \in failed

\* C5 (as claimed): a second invocation of memfault_platform_boot without an
\* intervening reset is a no-op or rejected: no buffer is handed to its SDK
\* boot routine a second time.
C5_SecondBootIsNoOp ==
    \A b \in Buffers : handed[b] <= 1

\* C5 (amended): a second invocation without an intervening reset runs the same
\* boot steps again: whenever the adapter is outside boot, every buffer has been
\* handed to its SDK boot routine once per invocation since the reset, and the
\* calls of the latest run are the whole sequence.
C5_EveryBootRunsAgain ==
    (pc = 0) =>
        /\ \A b \in Buffers : handed[b] = boot_calls
        /\ (boot_calls > 0) => calls = RequiredOrder

\* boot has been invoked twice since the reset and has returned
C5_Witness ==
    /\ BootReturned
    /\ boot_calls = 2
    /\ \A b \in Buffers : handed[b] = 2

----------------------------------------------------------------------------
(* Reboot and time source properties *)

RebootCalled == last_op.name = "memfault_platform_reboot"

\* C8: once memfault_platform_reboot is called it performs the platform reset
\* (the program starts afresh: nothing of the pre-reset execution is left, the
\* CPU is not held in it) and control never returns to the caller.
C8_RebootPerformsReset ==
    RebootCalled =>
        /\ sys = "running"
        /\ pc = 0
        /\ boot_calls = 0
        /\ \A b \in Buffers : handed[b] = 0

\* the part of C8 the code does satisfy: after the call no operation of the
\* interrupted execution runs; the only step left is a reset from outside
C8_NeverReturns ==
    [][(sys = "spinning") => (last_op'.name = "reset")]_vars

TimeCalled == last_op.name = "memfault_platform_time_get_current"

\* C9: in every state memfault_platform_time_get_current returns validity false,
\* having filled the caller's record with the Unix-epoch-seconds variant and
\* unix_timestamp_secs = 0, whatever the record held and whatever ran before.
C9_TimeInvalid ==
    TimeCalled =>
        /\ last_op.ret[2] = FALSE
        /\ last_op.ret[1].type = "kMemfaultCurrentTimeType_UnixEpochTimeSec"
        /\ last_op.ret[1].unix_timestamp_secs = 0

\* the time was asked for after a boot, with a record that held another time
C9_Witness ==
    /\ TimeCalled
    /\ boot_calls > 0
    /\ last_op.args[1].unix_timestamp_secs # 0

====
